---- MODULE Spec2Model ----
(***************************************************************************)
(* A model of testcontainer-go's docker.go: RunContainer (pull, drain,     *)
(* create, start, readiness wait), the Container handle with its lazily    *)
(* cached inspection, its accessors and Terminate, against a container     *)
(* engine whose calls may fail.                                            *)
(***************************************************************************)
EXTENDS Integers, Sequences, FiniteSets, TLC

(* ------------------------------ bounds -------------------------------- *)

\* longest request command string, in characters
MaxCmdLen == 3
\* goroutines of the caller that use one handle
NCallers == 2
\* accessor and Terminate calls begun on one handle
MaxCalls == 3

(* ------------------------------ strings ------------------------------- *)

SP == " "
TAB == "\t"
Chars == {"a", SP, TAB}

RECURSIVE StringsUpTo(_)
StringsUpTo(n) ==
  IF n = 0 THEN {<<>>}
  ELSE LET shorter == StringsUpTo(n - 1)
       IN  shorter \cup {Append(s, c) : s \in {x \in shorter : Len(x) = n - 1}, c \in Chars}

CmdStrings == StringsUpTo(MaxCmdLen)

\* strings.Split(s, sep) for a one-character sep: the pieces between
\* consecutive separators, empty pieces kept; acc is the piece being read.
RECURSIVE SplitFrom(_, _, _)
SplitFrom(s, sep, acc) ==
  IF s = <<>> THEN <<acc>>
  ELSE IF Head(s) = sep THEN <<acc>> \o SplitFrom(Tail(s), sep, <<>>)
  ELSE SplitFrom(Tail(s), sep, Append(acc, Head(s)))

StringsSplit(s, sep) == SplitFrom(s, sep, <<>>)

\* The tokens of s separated by runs of white space (space or tab), none empty.
IsSpace(c) == c \in {SP, TAB}

RECURSIVE FieldsFrom(_, _)
FieldsFrom(s, acc) ==
  IF s = <<>> THEN (IF acc = <<>> THEN <<>> ELSE <<acc>>)
  ELSE IF IsSpace(Head(s))
       THEN (IF acc = <<>> THEN <<>> ELSE <<acc>>) \o FieldsFrom(Tail(s), <<>>)
       ELSE FieldsFrom(Tail(s), Append(acc, Head(s)))

WhitespaceTokens(s) == FieldsFrom(s, <<>>)

\* strconv.Atoi on a string of the model: decimal digits to a number, an
\* error for the empty string or a non-digit.
DigitVal(c) == CASE c = "8" -> 8 [] c = "9" -> 9 [] OTHER -> -1

RECURSIVE AtoiFrom(_, _)
AtoiFrom(s, acc) ==
  IF s = <<>> THEN acc
  ELSE IF DigitVal(Head(s)) < 0 THEN -1
  ELSE AtoiFrom(Tail(s), 10 * acc + DigitVal(Head(s)))

Atoi(s) ==
  IF s = <<>> \/ AtoiFrom(s, 0) < 0
  THEN [val |-> 0, err |-> "strconv.Atoi: invalid syntax"]
  ELSE [val |-> AtoiFrom(s, 0), err |-> "nil"]

(* --------------------------- engine's data ---------------------------- *)

IDs == {"c1"}
Image == "img"

\* nat.Port: "<number>/<protocol>"; Int() is the number.
PortKeys == {<<80, "tcp">>, <<80, "udp">>}
PortInt(key) == key[1]

\* []nat.PortBinding, by HostPort, that the engine may report for a key: none
\* for a port that is exposed but not published.
BindingListsOf(key) ==
  IF key[2] = "tcp" THEN {<<>>, << <<"8">> >>} ELSE {<< <<"9">> >>}

\* nat.PortMap
PortMaps ==
  UNION {{m \in [ks -> {<<>>, << <<"8">> >>, << <<"9">> >>}] :
            \A k \in ks : m[k] \in BindingListsOf(k)} : ks \in SUBSET PortKeys}

IPs == {"172.17.0.2"}

\* types.ContainerJSON, the fields the handle reads
Snapshots == [ip : IPs, ports : PortMaps]
ExposedPorts(snap) == DOMAIN snap.ports

NoSnapshot == [ip |-> "", ports |-> << >>]

\* the ports a caller asks GetMappedPort for
QueryPorts == {80, 53}

(* ------------------------------ requests ------------------------------ *)

\* RequestContainer.ExportedPort: lists of specifications, by whether
\* nat.ParsePortSpecs accepts each one.
PortSpecLists == {<<>>, <<"8080:80">>, <<"8080:80", "x:y">>, <<"80/">>}
ValidPortSpec(s) == s \in {"8080:80", "80"}
MalformedSpecs(specs) == \E i \in 1..Len(specs) : ~ValidPortSpec(specs[i])

\* A parse whose error is dropped.
PortSpecsErrorDropped(specs) == "nil"

\* exposedPorts, portBindings, err := nat.ParsePortSpecs(input.ExportedPort):
\* the err
PortSpecsError(specs) ==
  IF \A i \in 1..Len(specs) : ValidPortSpec(specs[i]) THEN "nil" ELSE "nat.ParsePortSpecs"

WaitStrategies == {"nil", "strategy"}

Requests == [ExportedPort : PortSpecLists, Cmd : CmdStrings, WaitingFor : WaitStrategies]

NoRequest == [ExportedPort |-> <<>>, Cmd |-> <<>>, WaitingFor |-> "nil"]

\* container.Config.Cmd: a nil slice, or the tokens
NilCmd == [set |-> FALSE, toks |-> <<>>]

VARIABLES
  images,      \* engine: the images pulled
  containers,  \* engine: the ids of the containers that exist
  running,     \* engine: the ids of the started containers
  net,         \* engine: what an inspect of the handle's container reports now
  rpc,         \* RunContainer: the step it is at
  req,         \* RunContainer: its input
  dockerInput, \* RunContainer: the container.Config it assembles
  pullOpen,    \* RunContainer: the pull's response stream is open
  respID,      \* RunContainer: the id ContainerCreate answered
  ret,         \* RunContainer: what it returned
  events,      \* the engine calls RunContainer issued, in order
  created,     \* engine: the configuration the container was created with
  images0,     \* the engine's images as RunContainer was called
  cid,         \* Container.ID
  raw,         \* Container.raw: the cached inspection
  pc,          \* per goroutine: the step of its accessor call
  op,          \* per goroutine: the accessor called
  arg,         \* per goroutine: GetMappedPort's port
  local,       \* per goroutine: what inspectContainer returned to it
  res,         \* per goroutine: what the accessor returned
  inspects,    \* the ContainerInspect calls issued for the handle
  calls,       \* the calls begun on the handle
  lateCall,    \* some call began after another had returned
  firstRes     \* per port: what the first GetMappedPort that inspected returned

engineVars == <<images, containers, running, net>>
runVars == <<rpc, req, dockerInput, pullOpen, respID, ret, events, created, images0>>
handleVars == <<cid, raw>>
callerVars == <<pc, op, arg, local, res, inspects, calls, lateCall, firstRes>>
vars == <<engineVars, runVars, handleVars, callerVars>>

Callers == 1..NCallers

NoResult == [kind |-> "none", val |-> 0, str |-> "", set |-> {}, err |-> "nil"]
NoLocal == [err |-> "nil", snap |-> NoSnapshot]
NoFirst == [q \in QueryPorts |-> NoResult]

IdleCallers ==
  /\ pc = [t \in Callers |-> "idle"]
  /\ op = [t \in Callers |-> "none"]
  /\ arg = [t \in Callers |-> 0]
  /\ local = [t \in Callers |-> NoLocal]
  /\ res = [t \in Callers |-> NoResult]
  /\ inspects = 0
  /\ calls = 0
  /\ lateCall = FALSE
  /\ firstRes = NoFirst

(* ---------------------------- RunContainer ---------------------------- *)

NoReturn == [done |-> FALSE, handle |-> "nil", err |-> "nil"]
Returned(h, e) == [done |-> TRUE, handle |-> h, err |-> e]

\* Before RunContainer is called: nothing created, an image possibly there.
Init ==
  /\ images \in {{}, {Image}}
  /\ images0 = images
  /\ containers = {}
  /\ running = {}
  /\ net \in {s \in Snapshots : s.ip = "172.17.0.2" /\ s.ports = << >>}
  /\ rpc = "idle"
  /\ req = NoRequest
  /\ dockerInput = [Image |-> "", Cmd |-> NilCmd]
  /\ pullOpen = FALSE
  /\ respID = ""
  /\ ret = NoReturn
  /\ events = <<>>
  /\ created = [set |-> FALSE, cfg |-> [Image |-> "", Cmd |-> NilCmd]]
  /\ cid = ""
  /\ raw = [set |-> FALSE, snap |-> NoSnapshot]
  /\ IdleCallers

\* defer pull.Close() runs at every return after the pull was opened.
Return(h, e) ==
  /\ ret' = Returned(h, e)
  /\ rpc' = "returned"
  /\ pullOpen' = FALSE

\* RunContainer(ctx, containerImage, input) is called.
RunCall ==
  /\ rpc = "idle"
  /\ \E r \in Requests : req' = r
  /\ rpc' = "client"
  /\ UNCHANGED <<engineVars, dockerInput, pullOpen, respID, ret, events, created, images0,
                 handleVars, callerVars>>

\* cli, err := client.NewEnvClient()
RunNewEnvClient ==
  /\ rpc = "client"
  /\ \E ok \in BOOLEAN :
       IF ok THEN rpc' = "parse" /\ UNCHANGED <<ret, pullOpen>>
       ELSE Return("nil", "client.NewEnvClient")
  /\ UNCHANGED <<engineVars, req, dockerInput, respID, events, created, images0,
                 handleVars, callerVars>>

\* dockerInput.Cmd: left nil for "", else strings.Split(input.Cmd, " ")
ConfigCmd(cmd) ==
  IF cmd # <<>> THEN [set |-> TRUE, toks |-> StringsSplit(cmd, SP)] ELSE NilCmd

\* nat.ParsePortSpecs, then the configuration is assembled.
RunParseAndAssemble ==
  /\ rpc = "parse"
  /\ IF PortSpecsError(req.ExportedPort) = "nil"
     THEN /\ dockerInput' = [Image |-> Image, Cmd |-> ConfigCmd(req.Cmd)]
          /\ rpc' = "pull"
          /\ UNCHANGED <<ret, pullOpen>>
     ELSE /\ Return("nil", PortSpecsError(req.ExportedPort))
          /\ UNCHANGED dockerInput
  /\ UNCHANGED <<engineVars, req, respID, events, created, images0, handleVars, callerVars>>

Event(name, ok) == [call |-> name, ok |-> ok]

\* pull, err := cli.ImagePull(ctx, dockerInput.Image, pullOpt)
RunImagePull ==
  /\ rpc = "pull"
  /\ \E ok \in BOOLEAN :
       /\ events' = Append(events, Event("pull", ok))
       /\ IF ok THEN rpc' = "drain" /\ pullOpen' = TRUE /\ UNCHANGED ret
          ELSE Return("nil", "cli.ImagePull")
  /\ UNCHANGED <<engineVars, req, dockerInput, respID, created, images0, handleVars, callerVars>>

\* A drain whose read error is dropped: create follows a failed read.
RunDrainPullUnchecked ==
  /\ rpc = "drain"
  /\ \E ok \in BOOLEAN :
       /\ events' = Append(events, Event("drain", ok))
       /\ images' = IF ok THEN images \cup {dockerInput.Image} ELSE images
  /\ rpc' = "create"
  /\ UNCHANGED <<ret, pullOpen>>
  /\ UNCHANGED <<containers, running, net, req, dockerInput, respID, created, images0,
                 handleVars, callerVars>>

\* _, err = ioutil.ReadAll(pull): the image is there at end-of-data.
RunDrainPull ==
  /\ rpc = "drain"
  /\ \E ok \in BOOLEAN :
       /\ events' = Append(events, Event("drain", ok))
       /\ IF ok THEN /\ rpc' = "create"
                     /\ images' = images \cup {dockerInput.Image}
                     /\ UNCHANGED <<ret, pullOpen>>
          ELSE /\ Return("nil", "ioutil.ReadAll")
               /\ UNCHANGED images
  /\ UNCHANGED <<containers, running, net, req, dockerInput, respID, created, images0,
                 handleVars, callerVars>>

\* resp, err := cli.ContainerCreate(ctx, dockerInput, hostConfig, nil, "")
RunContainerCreate ==
  /\ rpc = "create"
  /\ \E ok \in BOOLEAN :
       /\ events' = Append(events, Event("create", ok))
       /\ IF ok
          THEN \E id \in IDs \ containers :
                 /\ containers' = containers \cup {id}
                 /\ respID' = id
                 /\ created' = [set |-> TRUE, cfg |-> dockerInput]
                 /\ rpc' = "start"
                 /\ UNCHANGED <<ret, pullOpen>>
          ELSE /\ Return("nil", "cli.ContainerCreate")
               /\ UNCHANGED <<containers, respID, created>>
  /\ UNCHANGED <<images, running, net, req, dockerInput, images0, handleVars, callerVars>>

\* A start failure that removes the container just created.
RemovedAfterStartFailure(id) == containers \ {id}

\* What a failed ContainerStart leaves of the engine's containers: the code
\* returns the error and removes nothing.
AfterStartFailure(id) == containers

\* cli.ContainerStart(ctx, resp.ID, ...); then containerInstance := &Container{ID: resp.ID}
RunContainerStart ==
  /\ rpc = "start"
  /\ \E ok \in BOOLEAN :
       /\ events' = Append(events, Event("start", ok))
       /\ IF ok
          THEN /\ running' = running \cup {respID}
               /\ cid' = respID
               /\ raw' = [set |-> FALSE, snap |-> NoSnapshot]
               /\ rpc' = "wait"
               /\ UNCHANGED <<ret, pullOpen, containers>>
          ELSE /\ Return("nil", "cli.ContainerStart")
               /\ containers' = AfterStartFailure(respID)
               /\ UNCHANGED <<running, cid, raw>>
  /\ UNCHANGED <<images, net, req, dockerInput, respID, created, images0, callerVars>>

\* A readiness failure that drops the handle.
WaitFailureReturnNoHandle == Return("nil", "WaitUntilReady")

\* What RunContainer returns when the readiness strategy failed.
WaitFailureReturn == Return(cid, "WaitUntilReady")

\* if input.WaitingFor != nil { WaitUntilReady(ctx, containerInstance) }
RunWait ==
  /\ rpc = "wait"
  /\ IF req.WaitingFor = "nil"
     THEN Return(cid, "nil") /\ UNCHANGED events
     ELSE \E ok \in BOOLEAN :
            /\ events' = Append(events, Event("wait", ok))
            /\ IF ok THEN Return(cid, "nil") ELSE WaitFailureReturn
  /\ UNCHANGED <<engineVars, req, dockerInput, respID, created, images0, handleVars, callerVars>>

Next ==
  \/ RunCall
  \/ RunNewEnvClient
  \/ RunParseAndAssemble
  \/ RunImagePull
  \/ RunDrainPull
  \/ RunContainerCreate
  \/ RunContainerStart
  \/ RunWait

Spec == Init /\ [][Next]_vars


(* ------------------------- the Container handle ----------------------- *)

\* A handle as RunContainer hands it out: the container exists and runs,
\* nothing inspected yet.
InitHandle ==
  /\ images = {Image}
  /\ images0 = {Image}
  /\ \E id \in IDs : containers = {id} /\ running = {id} /\ cid = id /\ respID = id
                     /\ ret = Returned(id, "nil")
  /\ net \in Snapshots
  /\ rpc = "returned"
  /\ req = NoRequest
  /\ dockerInput = [Image |-> Image, Cmd |-> NilCmd]
  /\ pullOpen = FALSE
  /\ events = <<>>
  /\ created = [set |-> TRUE, cfg |-> dockerInput]
  /\ raw = [set |-> FALSE, snap |-> NoSnapshot]
  /\ IdleCallers

Accessors == {"GetIPAddress", "LivenessCheckPorts", "GetMappedPort"}

\* A panic in one goroutine ends the process.
Crashed == \E t \in Callers : pc[t] = "panic"
InFlight(t) == pc[t] \in {"check", "client", "inspect", "store", "ret"}
HasReturned(t) == pc[t] = "done"

\* A goroutine calls an accessor of the handle.
Call(t) ==
  /\ ~Crashed
  /\ pc[t] \in {"idle", "done"}
  /\ calls < MaxCalls
  /\ \E o \in Accessors, p \in QueryPorts :
       /\ op' = [op EXCEPT ![t] = o]
       /\ arg' = [arg EXCEPT ![t] = IF o = "GetMappedPort" THEN p ELSE 0]
       /\ (o # "GetMappedPort" => p = 80)
  /\ pc' = [pc EXCEPT ![t] = "check"]
  /\ local' = [local EXCEPT ![t] = NoLocal]
  /\ res' = [res EXCEPT ![t] = NoResult]
  /\ calls' = calls + 1
  /\ lateCall' = (lateCall \/ \E u \in Callers : HasReturned(u))
  /\ UNCHANGED <<engineVars, runVars, handleVars, inspects, firstRes>>

\* inspectContainer: if c.raw != nil { return c.raw, nil }
CheckCache(t) ==
  /\ ~Crashed
  /\ pc[t] = "check"
  /\ IF raw.set
     THEN /\ local' = [local EXCEPT ![t] = [err |-> "nil", snap |-> raw.snap]]
          /\ pc' = [pc EXCEPT ![t] = "ret"]
     ELSE /\ pc' = [pc EXCEPT ![t] = "client"]
          /\ UNCHANGED local
  /\ UNCHANGED <<engineVars, runVars, handleVars, op, arg, res, inspects, calls, lateCall,
                 firstRes>>

\* inspectContainer: cli, err := client.NewEnvClient()
NewEnvClient(t) ==
  /\ ~Crashed
  /\ pc[t] = "client"
  /\ \E ok \in BOOLEAN :
       IF ok
       THEN pc' = [pc EXCEPT ![t] = "inspect"] /\ UNCHANGED local
       ELSE /\ local' = [local EXCEPT ![t] = [err |-> "client.NewEnvClient", snap |-> NoSnapshot]]
            /\ pc' = [pc EXCEPT ![t] = "ret"]
  /\ UNCHANGED <<engineVars, runVars, handleVars, op, arg, res, inspects, calls, lateCall,
                 firstRes>>

\* inspectContainer: inspect, err := cli.ContainerInspect(ctx, c.ID); the
\* engine answers with the container's state now, or fails.
ContainerInspect(t) ==
  /\ ~Crashed
  /\ pc[t] = "inspect"
  /\ inspects' = inspects + 1
  /\ \E reachable \in BOOLEAN :
       IF ~reachable
       THEN /\ local' = [local EXCEPT ![t] = [err |-> "cli.ContainerInspect: cannot connect",
                                              snap |-> NoSnapshot]]
            /\ pc' = [pc EXCEPT ![t] = "ret"]
       ELSE IF cid \notin containers
       THEN /\ local' = [local EXCEPT ![t] = [err |-> "cli.ContainerInspect: no such container",
                                              snap |-> NoSnapshot]]
            /\ pc' = [pc EXCEPT ![t] = "ret"]
       ELSE /\ local' = [local EXCEPT ![t] = [err |-> "nil", snap |-> net]]
            /\ pc' = [pc EXCEPT ![t] = "store"]
  /\ UNCHANGED <<engineVars, runVars, handleVars, op, arg, res, calls, lateCall, firstRes>>

\* inspectContainer: c.raw = &inspect; return c.raw, nil
StoreCache(t) ==
  /\ ~Crashed
  /\ pc[t] = "store"
  /\ raw' = [set |-> TRUE, snap |-> local[t].snap]
  /\ pc' = [pc EXCEPT ![t] = "ret"]
  /\ UNCHANGED <<engineVars, runVars, cid, op, arg, local, res, inspects, calls, lateCall,
                 firstRes>>

Result(k, v, s, ps, e) == [kind |-> k, val |-> v, str |-> s, set |-> ps, err |-> e]
ErrorResult(e) == Result("return", 0, "", {}, e)

PortText(p) == CASE p = 80 -> "80" [] p = 53 -> "53" [] OTHER -> "0"
\* fmt.Errorf("Unable to find mapped port: %d", port)
NotFoundError(p) == "Unable to find mapped port: " \o PortText(p)

\* The orders in which a range over the map may visit its keys.
KeyOrders(ports) ==
  LET ks == DOMAIN ports
      n == Cardinality(ks)
  IN  {o \in [1..n -> ks] : \A i, j \in 1..n : i # j => o[i] # o[j]}

\* What GetMappedPort does at a key whose number is the port asked for:
\* val[0].HostPort, then strconv.Atoi.
MatchedBinding(val) ==
  IF Len(val) = 0
  THEN Result("panic", 0, "", {}, "index out of range")
  ELSE Result("return", Atoi(val[1]).val, "", {}, Atoi(val[1]).err)

\* A loop that answers port 0 and no error when no key matches.
RECURSIVE RangePortsNoError(_, _, _)
RangePortsNoError(order, ports, port) ==
  IF order = <<>> THEN Result("return", 0, "", {}, "nil")
  ELSE IF PortInt(Head(order)) = port THEN MatchedBinding(ports[Head(order)])
  ELSE RangePortsNoError(Tail(order), ports, port)

\* GetMappedPort's loop over inspect.NetworkSettings.Ports, visiting the keys
\* in the given order.
RECURSIVE RangePorts(_, _, _)
RangePorts(order, ports, port) ==
  IF order = <<>> THEN Result("return", 0, "", {}, NotFoundError(port))
  ELSE IF PortInt(Head(order)) = port THEN MatchedBinding(ports[Head(order)])
  ELSE RangePorts(Tail(order), ports, port)

\* What an accessor makes of the inspection it got.
AccessorResults(o, p, insp) ==
  IF insp.err # "nil" THEN {ErrorResult(insp.err)}
  ELSE CASE o = "GetIPAddress" -> {Result("return", 0, insp.snap.ip, {}, "nil")}
         [] o = "LivenessCheckPorts" -> {Result("return", 0, "", ExposedPorts(insp.snap), "nil")}
         [] OTHER -> {RangePorts(order, insp.snap.ports, p) : order \in KeyOrders(insp.snap.ports)}

\* The accessor returns (or panics) with what it read from the inspection.
Finish(t) ==
  /\ pc[t] = "ret"
  /\ ~Crashed
  /\ \E r \in AccessorResults(op[t], arg[t], local[t]) :
       /\ res' = [res EXCEPT ![t] = r]
       /\ pc' = [pc EXCEPT ![t] = IF r.kind = "panic" THEN "panic" ELSE "done"]
       /\ firstRes' = IF /\ op[t] = "GetMappedPort"
                         /\ local[t].err = "nil"
                         /\ firstRes[arg[t]].kind = "none"
                      THEN [firstRes EXCEPT ![arg[t]] = r]
                      ELSE firstRes
  /\ UNCHANGED <<engineVars, runVars, handleVars, op, arg, local, inspects, calls, lateCall>>

\* A Terminate that invalidates the cache.
RawClearedOnTerminate == [set |-> FALSE, snap |-> NoSnapshot]

\* What Terminate leaves of the handle's cache: it does not touch it.
RawAfterTerminate == raw

\* Terminate: NewEnvClient, then ContainerRemove(ctx, c.ID, Force).
Terminate(t) ==
  /\ ~Crashed
  /\ pc[t] \in {"idle", "done"}
  /\ calls < MaxCalls
  /\ calls' = calls + 1
  /\ op' = [op EXCEPT ![t] = "Terminate"]
  /\ arg' = [arg EXCEPT ![t] = 0]
  /\ local' = [local EXCEPT ![t] = NoLocal]
  /\ pc' = [pc EXCEPT ![t] = "done"]
  /\ lateCall' = (lateCall \/ \E u \in Callers : HasReturned(u))
  /\ raw' = RawAfterTerminate
  /\ \E clientOk \in BOOLEAN, reachable \in BOOLEAN :
       IF ~clientOk
       THEN res' = [res EXCEPT ![t] = ErrorResult("client.NewEnvClient")]
            /\ UNCHANGED <<containers, running>>
       ELSE IF ~reachable \/ cid \notin containers
       THEN res' = [res EXCEPT ![t] = ErrorResult("cli.ContainerRemove")]
            /\ UNCHANGED <<containers, running>>
       ELSE /\ res' = [res EXCEPT ![t] = ErrorResult("nil")]
            /\ containers' = containers \ {cid}
            /\ running' = running \ {cid}
  /\ UNCHANGED <<images, net, runVars, cid, inspects, firstRes>>

\* The engine's side changes under the handle: the container's network
\* state changes, or the container is removed by someone else.
EngineChange ==
  /\ \/ /\ \E s \in Snapshots : s # net /\ net' = s
        /\ UNCHANGED <<containers, running>>
     \/ /\ cid \in containers
        /\ containers' = containers \ {cid}
        /\ running' = running \ {cid}
        /\ UNCHANGED net
  /\ UNCHANGED <<images, runVars, handleVars, callerVars>>

\* Goroutines use the handle concurrently.
NextHandle ==
  \/ \E t \in Callers : Call(t)
  \/ \E t \in Callers : CheckCache(t)
  \/ \E t \in Callers : NewEnvClient(t)
  \/ \E t \in Callers : ContainerInspect(t)
  \/ \E t \in Callers : StoreCache(t)
  \/ \E t \in Callers : Finish(t)
  \/ \E t \in Callers : Terminate(t)
  \/ EngineChange

SpecHandle == InitHandle /\ [][NextHandle]_vars

\* The caller uses the handle from one goroutine, one call at a time.
SeqCaller == CHOOSE t \in Callers : \A u \in Callers : t <= u
NoneInFlight == \A u \in Callers : ~InFlight(u)

CallSeq(t) == t = SeqCaller /\ NoneInFlight /\ Call(t)
TerminateSeq(t) == t = SeqCaller /\ NoneInFlight /\ Terminate(t)

NextSeq ==
  \/ \E t \in Callers : CallSeq(t)
  \/ \E t \in Callers : CheckCache(t)
  \/ \E t \in Callers : NewEnvClient(t)
  \/ \E t \in Callers : ContainerInspect(t)
  \/ \E t \in Callers : StoreCache(t)
  \/ \E t \in Callers : Finish(t)
  \/ \E t \in Callers : TerminateSeq(t)
  \/ EngineChange

SpecSeq == InitHandle /\ [][NextSeq]_vars


(* ------------------------------- claims ------------------------------- *)

Done(t) == pc[t] = "done"
AccessorDone(t) == Done(t) /\ op[t] \in Accessors
MatchesKey(ports, p) == \E k \in DOMAIN ports : PortInt(k) = p

\* C1: accessor calls that run concurrently on a handle with an empty cache
\* issue one engine inspect between them, and all of them get the same
\* snapshot or the same error from the inspection.
C1_SingleFlight ==
  ~lateCall =>
    /\ inspects <= 1
    /\ \A t, u \in Callers : AccessorDone(t) /\ AccessorDone(u) => local[t] = local[u]

\* C2: a GetMappedPort(p) for a port p that the inspected bindings hold
\* returns what the first such call returned, whatever the engine did since.
C2_SameHostPortAsFirst ==
  \A t \in Callers :
    ( /\ Done(t)
      /\ op[t] = "GetMappedPort"
      /\ local[t].err = "nil"
      /\ MatchesKey(local[t].snap.ports, arg[t]) )
    => res[t] = firstRes[arg[t]]

StepsOk(n) == Len(events) >= n /\ \A i \in 1..n : events[i].ok
PreHandleErrors ==
  {"client.NewEnvClient", "nat.ParsePortSpecs", "cli.ImagePull", "ioutil.ReadAll",
   "cli.ContainerCreate", "cli.ContainerStart"}

\* C3: RunContainer returns (nil, error) when a step before the readiness
\* wait failed, (handle with the engine's id, error) when those steps
\* succeeded and the readiness strategy failed, (handle, nil) otherwise;
\* never (nil, nil), never a handle after an earlier failure.
C3_ThreeOutcomes ==
  ret.done =>
    \/ /\ ret.handle = "nil"
       /\ ret.err \in PreHandleErrors
       /\ ~StepsOk(4)
    \/ /\ ret.handle \in IDs /\ ret.handle = respID
       /\ ret.err = "WaitUntilReady"
       /\ StepsOk(4) /\ req.WaitingFor # "nil"
       /\ Len(events) = 5 /\ ~events[5].ok
    \/ /\ ret.handle \in IDs /\ ret.handle = respID
       /\ ret.err = "nil"
       /\ StepsOk(4)
       /\ \/ req.WaitingFor = "nil" /\ Len(events) = 4
          \/ req.WaitingFor # "nil" /\ Len(events) = 5 /\ events[5].ok

C3_Witness == ret.done /\ ret.handle \in IDs /\ ret.err = "WaitUntilReady"

\* C4: with a malformed port specification RunContainer returns an error
\* and issues no pull, create, start or wait: the engine's images and
\* containers stay as they were.
C4_MalformedPortsNoEngineCall ==
  (rpc # "idle" /\ MalformedSpecs(req.ExportedPort)) =>
    /\ events = <<>>
    /\ images = images0 /\ containers = {} /\ running = {} /\ ~created.set
    /\ rpc \in {"client", "parse", "returned"}
    /\ ret.done => (ret.handle = "nil" /\ ret.err # "nil")

C4_Witness ==
  ret.done /\ MalformedSpecs(req.ExportedPort) /\ ret.err = "nat.ParsePortSpecs"

CallOrder == <<"pull", "drain", "create", "start", "wait">>

\* C5: the engine calls of a run are issued in the order pull, drain,
\* create, start, readiness wait, each only after the one before succeeded.
C5_EngineCallOrder ==
  /\ Len(events) <= Len(CallOrder)
  /\ \A i \in 1..Len(events) :
       /\ events[i].call = CallOrder[i]
       /\ i < Len(events) => events[i].ok
  /\ created.set => StepsOk(2)
  /\ running # {} => StepsOk(3)

C5_Witness == Len(events) = 5 /\ events[5].call = "wait"

\* C6: a GetMappedPort(p) whose inspected bindings hold no key numbered p
\* returns the not-found error, on every call, and never an error of the
\* inspection; a failed inspection returns its own error, never not-found.
InspectionErrors ==
  {"client.NewEnvClient", "cli.ContainerInspect: cannot connect",
   "cli.ContainerInspect: no such container"}

C6_NotFoundError ==
  \A t \in Callers :
    (Done(t) /\ op[t] = "GetMappedPort") =>
      IF local[t].err = "nil"
      THEN ~MatchesKey(local[t].snap.ports, arg[t]) =>
             /\ res[t].err = NotFoundError(arg[t])
             /\ res[t].val = 0
             /\ res[t].err \notin InspectionErrors
      ELSE /\ res[t].err = local[t].err
           /\ res[t].err \in InspectionErrors
           /\ res[t].err # NotFoundError(arg[t])

C6_Witness ==
  \E t \in Callers :
    /\ Done(t) /\ op[t] = "GetMappedPort" /\ arg[t] = 80
    /\ res[t].err = NotFoundError(80)
    /\ calls >= 2 /\ inspects = 1
    /\ MatchesKey(net.ports, 80)

\* C7: the command the container is created with is absent for an empty
\* command string, and otherwise the white-space separated tokens of it.
C7_CmdIsWhitespaceTokens ==
  created.set =>
    created.cfg.Cmd = IF req.Cmd = <<>> THEN NilCmd
                      ELSE [set |-> TRUE, toks |-> WhitespaceTokens(req.Cmd)]

\* C8: when RunContainer returns no handle, a container of that call exists
\* exactly if the step that failed was start; RunContainer removes nothing.
C8_LeakOnlyOnStartFailure ==
  (ret.done /\ ret.handle = "nil") =>
    /\ containers # {} <=> ret.err = "cli.ContainerStart"
    /\ containers # {} => (created.set /\ containers = {respID} /\ respID \notin running)
    /\ \A i \in 1..Len(events) : events[i].call # "remove"

C8_Witness ==
  ret.done /\ ret.handle = "nil" /\ ret.err = "cli.ContainerStart" /\ respID \in containers

\* C9: in sequential use the cache is written only by a successful inspect;
\* a failed inspect returns its error and leaves the cache empty, so the
\* next accessor inspects again; once the cache is set nothing inspects
\* again, replaces or clears it; the handle's ID never changes.
C9_CacheStep ==
  /\ cid' = cid
  /\ raw.set => (raw' = raw /\ inspects' = inspects)
  /\ raw' # raw =>
       \E t \in Callers : /\ pc[t] = "store" /\ pc'[t] = "ret"
                          /\ local[t].err = "nil"
                          /\ raw' = [set |-> TRUE, snap |-> local[t].snap]
  /\ \A t \in Callers :
       /\ (pc[t] = "inspect" /\ pc'[t] = "ret") => (local'[t].err # "nil" /\ ~raw'.set)
       /\ (pc[t] = "ret" /\ pc'[t] = "done" /\ local[t].err # "nil") =>
            res'[t].err = local[t].err
       /\ (pc[t] = "check" /\ pc'[t] # "check" /\ ~raw.set) => pc'[t] = "client"

C9_CacheWrittenOnce == [][C9_CacheStep]_vars

C9_Witness ==
  /\ raw.set /\ inspects = 2 /\ calls = 3
  /\ Done(SeqCaller) /\ op[SeqCaller] = "Terminate"
  /\ cid \notin containers

\* C10: GetMappedPort returns a host port or an error, and never aborts its
\* caller, whatever the inspected bindings are.
C10_NeverAborts == \A t \in Callers : pc[t] # "panic" /\ res[t].kind # "panic"

====
